---- MODULE Spec2Model ----
(***************************************************************************)
(* drm-ffi mode.rs: the describe-then-fetch operations that read kernel    *)
(* arrays into caller buffers, and the lease create/revoke calls.          *)
(*                                                                         *)
(* One invocation of one operation is followed from its first kernel call  *)
(* to its return.  The kernel is the environment: it answers every call    *)
(* with its current counts, may fail any call, and may change its counts   *)
(* between two calls of the invocation.                                    *)
(***************************************************************************)
EXTENDS Integers, Sequences, FiniteSets, TLC

VARIABLES
    op,           \* the operation invoked
    pc,           \* "start", "probed", "ok", "err", "panic"
    force_probe,  \* get_connector's force_probe argument
    bufs,         \* the caller's Option<&mut Vec<_>> arguments, by name
    bufs0,        \* the buffers as the caller passed them in
    kernel,       \* the kernel-side count of every array of the object
    changes,      \* kernel-side changes since the invocation began
    sizes,        \* the record that sizes the buffers (counts)
    ret,          \* the record the operation returns (counts)
    calls,        \* the kernel calls issued: request sent, outcome, counts written back
    first,        \* <<record>> returned by an earlier invocation with no buffers, or <<>>
    other,        \* a second thread's invocation while that thread is not running, or <<>>
    leases,       \* kernel lease table: lessee id -> "Leased" | "Revoked"
    leased_objs,  \* kernel lease table: lessee id -> objects
    lessee_id,    \* the caller's lessee_id output of create_lease
    lessee_fd,    \* the caller's lessee_fd output of create_lease
    lease_log,    \* lease calls made: name, argument, result
    ids           \* LesseeId conversions: the u32 inputs and what each conversion gave, or <<>>

vars == <<op, pc, force_probe, bufs, bufs0, kernel, changes, sizes, ret, calls, first,
          other, leases, leased_objs, lessee_id, lessee_fd, lease_log, ids>>

fetch_vars == <<op, pc, force_probe, bufs, bufs0, kernel, changes, sizes, ret, calls, first,
               other>>
lease_vars == <<leases, leased_objs, lessee_id, lessee_fd, lease_log, ids>>

(***************************************************************************)
(* Bounds                                                                  *)
(***************************************************************************)
MaxCount == 2      \* kernel-side elements of the object when the invocation begins
MaxCap == 2        \* capacity the caller's buffers hold when passed in
MaxChanges == 1    \* kernel-side changes during one invocation
MaxLeaseCalls == 3 \* create_lease / revoke_lease calls in one run

(***************************************************************************)
(* Caller buffers: Option<&mut Vec<T>>                                     *)
(***************************************************************************)
None == [some |-> FALSE, len |-> 0, cap |-> 0]
Vec(l, c) == [some |-> TRUE, len |-> l, cap |-> c]

\* utils.rs macros
map_reserve(b, size) == IF b.some /\ b.cap < size THEN [b EXCEPT !.cap = size] ELSE b
map_ptr(b, name) == IF b.some THEN name ELSE "null"
map_len(b) == IF b.some THEN b.cap ELSE 0
map_set(b, n) == IF b.some THEN [b EXCEPT !.len = n] ELSE b

(***************************************************************************)
(* The operations, their count fields and their buffers                    *)
(***************************************************************************)
Ops == {"get_resources", "get_plane_resources", "get_connector", "get_plane",
        "get_property", "get_property_blob", "get_properties", "list_lessees",
        "get_lease"}

FieldsOf(o) ==
    CASE o = "get_resources" ->
            {"count_fbs", "count_crtcs", "count_connectors", "count_encoders"}
      [] o = "get_plane_resources" -> {"count_planes"}
      [] o = "get_connector" -> {"count_modes", "count_props", "count_encoders"}
      [] o = "get_plane" -> {"count_format_types"}
      [] o = "get_property" -> {"count_values", "count_enum_blobs"}
      [] o = "get_property_blob" -> {"length"}
      [] o = "get_properties" -> {"count_props"}
      [] o = "list_lessees" -> {"count_lessees"}
      [] o = "get_lease" -> {"count_objects"}

BufsOf(o) ==
    CASE o = "get_resources" -> {"fbs", "crtcs", "connectors", "encoders"}
      [] o = "get_plane_resources" -> {"planes"}
      [] o = "get_connector" -> {"props", "prop_values", "modes", "encoders"}
      [] o = "get_plane" -> {"formats"}
      [] o = "get_property" -> {"values", "enums"}
      [] o = "get_property_blob" -> {"data"}
      [] o = "get_properties" -> {"props", "values"}
      [] o = "list_lessees" -> {"lessees"}
      [] o = "get_lease" -> {"objs"}

\* the count field whose value the operation sets as the buffer's length
FieldOf(o, b) ==
    CASE o = "get_resources" ->
            (CASE b = "fbs" -> "count_fbs" [] b = "crtcs" -> "count_crtcs"
               [] b = "connectors" -> "count_connectors"
               [] b = "encoders" -> "count_encoders")
      [] o = "get_connector" ->
            (CASE b = "modes" -> "count_modes" [] b = "encoders" -> "count_encoders"
               [] b \in {"props", "prop_values"} -> "count_props")
      [] o = "get_property" ->
            (CASE b = "values" -> "count_values" [] b = "enums" -> "count_enum_blobs")
      [] OTHER -> CHOOSE f \in FieldsOf(o) : TRUE

\* ..Default::default()
Default(o) == [f \in FieldsOf(o) |-> 0]

(***************************************************************************)
(* The kernel call primitive                                               *)
(***************************************************************************)
\* ioctl::mode::*(fd, &mut record): the kernel writes its current counts
\* into the record, or fails and leaves the record as sent.
\* A failing call carries one of the kernel's error codes.
Errnos == {"EINVAL", "EACCES"}

Ioctl(req, ok) ==
    \E e \in Errnos :
        calls' = Append(calls, [req |-> req, ok |-> ok,
                                rep |-> IF ok THEN kernel ELSE req.count,
                                errno |-> IF ok THEN "" ELSE e])

\* mutant: every failure is reported as EINVAL
Err_einval(e) == [err |-> "EINVAL"]

\* ioctl(..)?: the error of the call is the function's result
Err(e) == [err |-> e]

\* the function returns at the failing call
Failed == pc' = "err" /\ ret' = Err(calls'[Len(calls')].errno)

\* another party changes one array of the object between two calls
KernelChange ==
    /\ pc = "probed"
    /\ changes < MaxChanges
    /\ \E f \in FieldsOf(op), d \in {-1, 1} :
          /\ kernel[f] + d >= 0
          /\ kernel' = [kernel EXCEPT ![f] = @ + d]
    /\ changes' = changes + 1
    /\ UNCHANGED <<op, pc, force_probe, bufs, bufs0, sizes, ret, calls, first>>
    /\ UNCHANGED <<other, lease_vars>>

(***************************************************************************)
(* get_resources                                                           *)
(***************************************************************************)
get_resources_sizes ==
    [ptr |-> [fb_id_ptr |-> "null", crtc_id_ptr |-> "null",
              connector_id_ptr |-> "null", encoder_id_ptr |-> "null"],
     count |-> [count_fbs |-> 0, count_crtcs |-> 0,
                count_connectors |-> 0, count_encoders |-> 0]]

get_resources_reserve(b, s) ==
    [b EXCEPT !["fbs"] = map_reserve(@, s["count_fbs"]),
              !["crtcs"] = map_reserve(@, s["count_crtcs"]),
              !["connectors"] = map_reserve(@, s["count_connectors"]),
              !["encoders"] = map_reserve(@, s["count_encoders"])]

get_resources_req(b, s) ==
    [ptr |-> [fb_id_ptr |-> map_ptr(b["fbs"], "fbs"),
              crtc_id_ptr |-> map_ptr(b["crtcs"], "crtcs"),
              connector_id_ptr |-> map_ptr(b["connectors"], "connectors"),
              encoder_id_ptr |-> map_ptr(b["encoders"], "encoders")],
     count |-> [count_fbs |-> map_len(b["fbs"]),
                count_crtcs |-> map_len(b["crtcs"]),
                count_connectors |-> map_len(b["connectors"]),
                count_encoders |-> map_len(b["encoders"])]]

get_resources_set(b, r) ==
    [b EXCEPT !["fbs"] = map_set(@, r["count_fbs"]),
              !["crtcs"] = map_set(@, r["count_crtcs"]),
              !["connectors"] = map_set(@, r["count_connectors"]),
              !["encoders"] = map_set(@, r["count_encoders"])]

get_resources_probe ==
    /\ op = "get_resources"
    /\ pc = "start"
    /\ \E ok \in BOOLEAN :
          /\ Ioctl(get_resources_sizes, ok)
          /\ IF ok
                THEN /\ sizes' = kernel
                     /\ pc' = "probed"
                     /\ UNCHANGED ret
                ELSE Failed /\ UNCHANGED sizes
    /\ UNCHANGED <<op, force_probe, bufs, bufs0, kernel, changes, first>>
    /\ UNCHANGED <<other, lease_vars>>

get_resources_fetch ==
    /\ op = "get_resources"
    /\ pc = "probed"
    /\ LET b1 == get_resources_reserve(bufs, sizes) IN
       \E ok \in BOOLEAN :
          /\ Ioctl(get_resources_req(b1, sizes), ok)
          /\ IF ok
                THEN /\ bufs' = get_resources_set(b1, kernel)
                     /\ ret' = kernel
                     /\ pc' = "ok"
                ELSE /\ bufs' = b1
                     /\ Failed
    /\ UNCHANGED <<op, force_probe, bufs0, kernel, changes, sizes, first>>
    /\ UNCHANGED <<other, lease_vars>>

(***************************************************************************)
(* get_plane_resources                                                     *)
(***************************************************************************)
get_plane_resources_sizes ==
    [ptr |-> [plane_id_ptr |-> "null"],
     count |-> [count_planes |-> 0]]

get_plane_resources_reserve(b, s) ==
    [b EXCEPT !["planes"] = map_reserve(@, s["count_planes"])]

\* mutant: the fetch sends the buffer's capacity
get_plane_resources_req_cap(b, s) ==
    [ptr |-> [plane_id_ptr |-> map_ptr(b["planes"], "planes")],
     count |-> [count_planes |-> map_len(b["planes"])]]

get_plane_resources_req(b, s) ==
    [ptr |-> [plane_id_ptr |-> map_ptr(b["planes"], "planes")],
     count |-> [count_planes |-> s["count_planes"]]]

get_plane_resources_set(b, r) ==
    [b EXCEPT !["planes"] = map_set(@, r["count_planes"])]

\* if planes.is_none() { return Ok(sizes); }
get_plane_resources_is_none(b) == ~b["planes"].some

get_plane_resources_probe ==
    /\ op = "get_plane_resources"
    /\ pc = "start"
    /\ \E ok \in BOOLEAN :
          /\ Ioctl(get_plane_resources_sizes, ok)
          /\ IF ok
                THEN /\ sizes' = kernel
                     /\ IF get_plane_resources_is_none(bufs)
                           THEN pc' = "ok" /\ ret' = kernel
                           ELSE pc' = "probed" /\ UNCHANGED ret
                ELSE Failed /\ UNCHANGED sizes
    /\ UNCHANGED <<op, force_probe, bufs, bufs0, kernel, changes, first>>
    /\ UNCHANGED <<other, lease_vars>>

get_plane_resources_fetch ==
    /\ op = "get_plane_resources"
    /\ pc = "probed"
    /\ LET b1 == get_plane_resources_reserve(bufs, sizes) IN
       \E ok \in BOOLEAN :
          /\ Ioctl(get_plane_resources_req(b1, sizes), ok)
          /\ IF ok
                THEN /\ bufs' = get_plane_resources_set(b1, kernel)
                     /\ ret' = kernel
                     /\ pc' = "ok"
                ELSE /\ bufs' = b1
                     /\ Failed
    /\ UNCHANGED <<op, force_probe, bufs0, kernel, changes, sizes, first>>
    /\ UNCHANGED <<other, lease_vars>>

(***************************************************************************)
(* get_plane                                                               *)
(***************************************************************************)
get_plane_sizes ==
    [ptr |-> [format_type_ptr |-> "null"],
     count |-> [count_format_types |-> 0]]

get_plane_reserve(b, s) ==
    [b EXCEPT !["formats"] = map_reserve(@, s["count_format_types"])]

get_plane_req(b, s) ==
    [ptr |-> [format_type_ptr |-> map_ptr(b["formats"], "formats")],
     count |-> [count_format_types |-> s["count_format_types"]]]

get_plane_set(b, r) ==
    [b EXCEPT !["formats"] = map_set(@, r["count_format_types"])]

\* mutant: the early return is missing
get_plane_never_none(b) == FALSE

\* if formats.is_none() { return Ok(sizes); }
get_plane_is_none(b) == ~b["formats"].some

get_plane_probe ==
    /\ op = "get_plane"
    /\ pc = "start"
    /\ \E ok \in BOOLEAN :
          /\ Ioctl(get_plane_sizes, ok)
          /\ IF ok
                THEN /\ sizes' = kernel
                     /\ IF get_plane_is_none(bufs)
                           THEN pc' = "ok" /\ ret' = kernel
                           ELSE pc' = "probed" /\ UNCHANGED ret
                ELSE Failed /\ UNCHANGED sizes
    /\ UNCHANGED <<op, force_probe, bufs, bufs0, kernel, changes, first>>
    /\ UNCHANGED <<other, lease_vars>>

get_plane_fetch ==
    /\ op = "get_plane"
    /\ pc = "probed"
    /\ LET b1 == get_plane_reserve(bufs, sizes) IN
       \E ok \in BOOLEAN :
          /\ Ioctl(get_plane_req(b1, sizes), ok)
          /\ IF ok
                THEN /\ bufs' = get_plane_set(b1, kernel)
                     /\ ret' = kernel
                     /\ pc' = "ok"
                ELSE /\ bufs' = b1
                     /\ Failed
    /\ UNCHANGED <<op, force_probe, bufs0, kernel, changes, sizes, first>>
    /\ UNCHANGED <<other, lease_vars>>

(***************************************************************************)
(* get_property                                                            *)
(***************************************************************************)
get_property_sizes ==
    [ptr |-> [values_ptr |-> "null", enum_blob_ptr |-> "null"],
     count |-> [count_values |-> 0, count_enum_blobs |-> 0]]

\* mutant: each buffer is reserved for the other array's count
get_property_reserve_swapped(b, s) ==
    [b EXCEPT !["values"] = map_reserve(@, s["count_enum_blobs"]),
              !["enums"] = map_reserve(@, s["count_values"])]

get_property_reserve(b, s) ==
    [b EXCEPT !["values"] = map_reserve(@, s["count_values"]),
              !["enums"] = map_reserve(@, s["count_enum_blobs"])]

get_property_req(b, s) ==
    [ptr |-> [values_ptr |-> map_ptr(b["values"], "values"),
              enum_blob_ptr |-> map_ptr(b["enums"], "enums")],
     count |-> [count_values |-> map_len(b["values"]),
                count_enum_blobs |-> map_len(b["enums"])]]

get_property_set(b, r) ==
    [b EXCEPT !["values"] = map_set(@, r["count_values"]),
              !["enums"] = map_set(@, r["count_enum_blobs"])]

get_property_probe ==
    /\ op = "get_property"
    /\ pc = "start"
    /\ \E ok \in BOOLEAN :
          /\ Ioctl(get_property_sizes, ok)
          /\ IF ok
                THEN /\ sizes' = kernel
                     /\ pc' = "probed"
                     /\ UNCHANGED ret
                ELSE Failed /\ UNCHANGED sizes
    /\ UNCHANGED <<op, force_probe, bufs, bufs0, kernel, changes, first>>
    /\ UNCHANGED <<other, lease_vars>>

get_property_fetch ==
    /\ op = "get_property"
    /\ pc = "probed"
    /\ LET b1 == get_property_reserve(bufs, sizes) IN
       \E ok \in BOOLEAN :
          /\ Ioctl(get_property_req(b1, sizes), ok)
          /\ IF ok
                THEN /\ bufs' = get_property_set(b1, kernel)
                     /\ ret' = kernel
                     /\ pc' = "ok"
                ELSE /\ bufs' = b1
                     /\ Failed
    /\ UNCHANGED <<op, force_probe, bufs0, kernel, changes, sizes, first>>
    /\ UNCHANGED <<other, lease_vars>>

(***************************************************************************)
(* get_property_blob                                                       *)
(***************************************************************************)
get_property_blob_sizes ==
    [ptr |-> [data |-> "null"],
     count |-> [length |-> 0]]

get_property_blob_reserve(b, s) ==
    [b EXCEPT !["data"] = map_reserve(@, s["length"])]

get_property_blob_req(b, s) ==
    [ptr |-> [data |-> map_ptr(b["data"], "data")],
     count |-> [length |-> s["length"]]]

get_property_blob_set(b, r) ==
    [b EXCEPT !["data"] = map_set(@, r["length"])]

\* mutant: the early return is missing
get_property_blob_never_none(b) == FALSE

\* if data.is_none() { return Ok(sizes); }
get_property_blob_is_none(b) == ~b["data"].some

get_property_blob_probe ==
    /\ op = "get_property_blob"
    /\ pc = "start"
    /\ \E ok \in BOOLEAN :
          /\ Ioctl(get_property_blob_sizes, ok)
          /\ IF ok
                THEN /\ sizes' = kernel
                     /\ IF get_property_blob_is_none(bufs)
                           THEN pc' = "ok" /\ ret' = kernel
                           ELSE pc' = "probed" /\ UNCHANGED ret
                ELSE Failed /\ UNCHANGED sizes
    /\ UNCHANGED <<op, force_probe, bufs, bufs0, kernel, changes, first>>
    /\ UNCHANGED <<other, lease_vars>>

get_property_blob_fetch ==
    /\ op = "get_property_blob"
    /\ pc = "probed"
    /\ LET b1 == get_property_blob_reserve(bufs, sizes) IN
       \E ok \in BOOLEAN :
          /\ Ioctl(get_property_blob_req(b1, sizes), ok)
          /\ IF ok
                THEN /\ bufs' = get_property_blob_set(b1, kernel)
                     /\ ret' = kernel
                     /\ pc' = "ok"
                ELSE /\ bufs' = b1
                     /\ Failed
    /\ UNCHANGED <<op, force_probe, bufs0, kernel, changes, sizes, first>>
    /\ UNCHANGED <<other, lease_vars>>

(***************************************************************************)
(* get_properties                                                          *)
(***************************************************************************)
get_properties_sizes ==
    [ptr |-> [props_ptr |-> "null", prop_values_ptr |-> "null"],
     count |-> [count_props |-> 0]]

get_properties_reserve(b, s) ==
    [b EXCEPT !["props"] = map_reserve(@, s["count_props"]),
              !["values"] = map_reserve(@, s["count_props"])]

get_properties_req(b, s) ==
    [ptr |-> [props_ptr |-> map_ptr(b["props"], "props"),
              prop_values_ptr |-> map_ptr(b["values"], "values")],
     count |-> [count_props |-> map_len(b["props"])]]

get_properties_set(b, r) ==
    [b EXCEPT !["props"] = map_set(@, r["count_props"]),
              !["values"] = map_set(@, r["count_props"])]

\* mutant: the assertion is missing
get_properties_no_assert(b) == TRUE

\* assert_eq!(props.is_some(), values.is_some())
get_properties_assert(b) == b["props"].some = b["values"].some

get_properties_probe ==
    /\ op = "get_properties"
    /\ pc = "start"
    /\ IF ~get_properties_assert(bufs)
          THEN pc' = "panic" /\ UNCHANGED <<sizes, ret, calls>>
          ELSE \E ok \in BOOLEAN :
                 /\ Ioctl(get_properties_sizes, ok)
                 /\ IF ok
                       THEN /\ sizes' = kernel
                            /\ pc' = "probed"
                            /\ UNCHANGED ret
                       ELSE Failed /\ UNCHANGED sizes
    /\ UNCHANGED <<op, force_probe, bufs, bufs0, kernel, changes, first>>
    /\ UNCHANGED <<other, lease_vars>>

get_properties_fetch ==
    /\ op = "get_properties"
    /\ pc = "probed"
    /\ LET b1 == get_properties_reserve(bufs, sizes) IN
       \E ok \in BOOLEAN :
          /\ Ioctl(get_properties_req(b1, sizes), ok)
          /\ IF ok
                THEN /\ bufs' = get_properties_set(b1, kernel)
                     /\ ret' = kernel
                     /\ pc' = "ok"
                ELSE /\ bufs' = b1
                     /\ Failed
    /\ UNCHANGED <<op, force_probe, bufs0, kernel, changes, sizes, first>>
    /\ UNCHANGED <<other, lease_vars>>

(***************************************************************************)
(* list_lessees                                                            *)
(***************************************************************************)
\* mutant: the probe already carries the caller's buffer
list_lessees_sizes_buf ==
    [ptr |-> [lessees_ptr |-> map_ptr(bufs["lessees"], "lessees")],
     count |-> [count_lessees |-> map_len(bufs["lessees"])]]

list_lessees_sizes ==
    [ptr |-> [lessees_ptr |-> "null"],
     count |-> [count_lessees |-> 0]]

list_lessees_reserve(b, s) ==
    [b EXCEPT !["lessees"] = map_reserve(@, s["count_lessees"])]

list_lessees_req(b, s) ==
    [ptr |-> [lessees_ptr |-> map_ptr(b["lessees"], "lessees")],
     count |-> [count_lessees |-> map_len(b["lessees"])]]

\* mutant: the length is set to the capacity, not to the reported count
list_lessees_set_cap(b, r) ==
    [b EXCEPT !["lessees"] = map_set(@, @.cap)]

list_lessees_set(b, r) ==
    [b EXCEPT !["lessees"] = map_set(@, r["count_lessees"])]

list_lessees_probe ==
    /\ op = "list_lessees"
    /\ pc = "start"
    /\ \E ok \in BOOLEAN :
          /\ Ioctl(list_lessees_sizes, ok)
          /\ IF ok
                THEN /\ sizes' = kernel
                     /\ pc' = "probed"
                     /\ UNCHANGED ret
                ELSE Failed /\ UNCHANGED sizes
    /\ UNCHANGED <<op, force_probe, bufs, bufs0, kernel, changes, first>>
    /\ UNCHANGED <<other, lease_vars>>

list_lessees_fetch ==
    /\ op = "list_lessees"
    /\ pc = "probed"
    /\ LET b1 == list_lessees_reserve(bufs, sizes) IN
       \E ok \in BOOLEAN :
          /\ Ioctl(list_lessees_req(b1, sizes), ok)
          /\ IF ok
                THEN /\ bufs' = list_lessees_set(b1, kernel)
                     /\ ret' = kernel
                     /\ pc' = "ok"
                ELSE /\ bufs' = b1
                     /\ Failed
    /\ UNCHANGED <<op, force_probe, bufs0, kernel, changes, sizes, first>>
    /\ UNCHANGED <<other, lease_vars>>

(***************************************************************************)
(* get_lease                                                               *)
(***************************************************************************)
get_lease_sizes ==
    [ptr |-> [objects_ptr |-> "null"],
     count |-> [count_objects |-> 0]]

get_lease_reserve(b, s) ==
    [b EXCEPT !["objs"] = map_reserve(@, s["count_objects"])]

get_lease_req(b, s) ==
    [ptr |-> [objects_ptr |-> map_ptr(b["objs"], "objs")],
     count |-> [count_objects |-> map_len(b["objs"])]]

get_lease_set(b, r) ==
    [b EXCEPT !["objs"] = map_set(@, r["count_objects"])]

get_lease_probe ==
    /\ op = "get_lease"
    /\ pc = "start"
    /\ \E ok \in BOOLEAN :
          /\ Ioctl(get_lease_sizes, ok)
          /\ IF ok
                THEN /\ sizes' = kernel
                     /\ pc' = "probed"
                     /\ UNCHANGED ret
                ELSE Failed /\ UNCHANGED sizes
    /\ UNCHANGED <<op, force_probe, bufs, bufs0, kernel, changes, first>>
    /\ UNCHANGED <<other, lease_vars>>

get_lease_fetch ==
    /\ op = "get_lease"
    /\ pc = "probed"
    /\ LET b1 == get_lease_reserve(bufs, sizes) IN
       \E ok \in BOOLEAN :
          /\ Ioctl(get_lease_req(b1, sizes), ok)
          /\ IF ok
                THEN /\ bufs' = get_lease_set(b1, kernel)
                     /\ ret' = kernel
                     /\ pc' = "ok"
                ELSE /\ bufs' = b1
                     /\ Failed
    /\ UNCHANGED <<op, force_probe, bufs0, kernel, changes, sizes, first>>
    /\ UNCHANGED <<other, lease_vars>>

(***************************************************************************)
(* get_connector                                                           *)
(***************************************************************************)
get_connector_sizes(fp) ==
    [ptr |-> [encoders_ptr |-> "null",
              modes_ptr |-> IF fp THEN "null" ELSE "tmp_mode",
              props_ptr |-> "null",
              prop_values_ptr |-> "null"],
     count |-> [count_modes |-> IF fp THEN 0 ELSE 1,
                count_props |-> 0,
                count_encoders |-> 0]]

get_connector_reserve(b, s) ==
    [b EXCEPT !["props"] = map_reserve(@, s["count_props"]),
              !["prop_values"] = map_reserve(@, s["count_props"]),
              !["modes"] = map_reserve(@, s["count_modes"]),
              !["encoders"] = map_reserve(@, s["count_encoders"])]

get_connector_info(b, fp) ==
    [ptr |-> [encoders_ptr |-> map_ptr(b["encoders"], "encoders"),
              modes_ptr |-> IF b["modes"].some THEN "modes"
                            ELSE IF fp THEN "null" ELSE "tmp_mode",
              props_ptr |-> map_ptr(b["props"], "props"),
              prop_values_ptr |-> map_ptr(b["prop_values"], "prop_values")],
     count |-> [count_modes |-> IF b["modes"].some THEN b["modes"].cap
                                ELSE IF fp THEN 0 ELSE 1,
                count_props |-> map_len(b["props"]),
                count_encoders |-> map_len(b["encoders"])]]

\* mutant: a fetch is accepted when no count has grown
get_connector_same_not_grown(info, s) ==
    /\ info["count_modes"] <= s["count_modes"]
    /\ info["count_encoders"] <= s["count_encoders"]
    /\ info["count_props"] <= s["count_props"]

\* mutant: the exit test leaves the property count out
get_connector_same_no_props(info, s) ==
    /\ info["count_modes"] = s["count_modes"]
    /\ info["count_encoders"] = s["count_encoders"]

\* mutant: the loop is capped, the first fetch is accepted whatever it reports
get_connector_same_capped(info, s) ==
    \/ /\ info["count_modes"] = s["count_modes"]
       /\ info["count_encoders"] = s["count_encoders"]
       /\ info["count_props"] = s["count_props"]
    \/ Len(calls) >= 1

\* mutant: only the mode count is compared
get_connector_same_modes(info, s) ==
    info["count_modes"] = s["count_modes"]

\* the loop's exit test
get_connector_same(info, s) ==
    /\ info["count_modes"] = s["count_modes"]
    /\ info["count_encoders"] = s["count_encoders"]
    /\ info["count_props"] = s["count_props"]

get_connector_set(b, r) ==
    [b EXCEPT !["modes"] = map_set(@, r["count_modes"]),
              !["props"] = map_set(@, r["count_props"]),
              !["prop_values"] = map_set(@, r["count_props"]),
              !["encoders"] = map_set(@, r["count_encoders"])]

\* assert_eq!(props.is_some(), prop_values.is_some())
get_connector_assert(b) == b["props"].some = b["prop_values"].some

get_connector_probe ==
    /\ op = "get_connector"
    /\ pc = "start"
    /\ IF ~get_connector_assert(bufs)
          THEN pc' = "panic" /\ UNCHANGED <<sizes, ret, calls>>
          ELSE \E ok \in BOOLEAN :
                 /\ Ioctl(get_connector_sizes(force_probe), ok)
                 /\ IF ok
                       THEN /\ sizes' = kernel
                            /\ pc' = "probed"
                            /\ UNCHANGED ret
                       ELSE Failed /\ UNCHANGED sizes
    /\ UNCHANGED <<op, force_probe, bufs, bufs0, kernel, changes, first>>
    /\ UNCHANGED <<other, lease_vars>>

\* one iteration of the loop, and the return when it breaks
get_connector_fetch ==
    /\ op = "get_connector"
    /\ pc = "probed"
    /\ LET b1 == get_connector_reserve(bufs, sizes) IN
       \E ok \in BOOLEAN :
          /\ Ioctl(get_connector_info(b1, force_probe), ok)
          /\ IF ~ok
                THEN /\ bufs' = b1
                     /\ Failed
                     /\ UNCHANGED sizes
                ELSE IF get_connector_same(kernel, sizes)
                        THEN /\ bufs' = get_connector_set(b1, kernel)
                             /\ ret' = kernel
                             /\ pc' = "ok"
                             /\ UNCHANGED sizes
                        ELSE /\ bufs' = b1
                             /\ sizes' = kernel
                             /\ UNCHANGED <<pc, ret>>
    /\ UNCHANGED <<op, force_probe, bufs0, kernel, changes, first>>
    /\ UNCHANGED <<other, lease_vars>>

(***************************************************************************)
(* One invocation                                                          *)
(***************************************************************************)
RECURSIVE Sum(_, _)
Sum(f, S) == IF S = {} THEN 0
             ELSE LET x == CHOOSE y \in S : TRUE IN f[x] + Sum(f, S \ {x})

\* a buffer argument: None, a new Vec, a Vec with spare capacity, a full Vec
Shapes == {None} \cup UNION {{Vec(0, c), Vec(c, c)} : c \in 0..MaxCap}

Buffers(o) ==
    {b \in [BufsOf(o) -> Shapes] : Sum([x \in BufsOf(o) |-> b[x].cap], BufsOf(o)) <= MaxCap}

Counts(o) ==
    {k \in [FieldsOf(o) -> 0..MaxCount] : Sum(k, FieldsOf(o)) <= MaxCount}

FetchInit ==
    /\ op \in Ops
    /\ pc = "start"
    /\ force_probe \in (IF op = "get_connector" THEN BOOLEAN ELSE {FALSE})
    /\ bufs \in Buffers(op)
    /\ bufs0 = bufs
    /\ kernel \in Counts(op)
    /\ changes = 0
    /\ sizes = Default(op)
    /\ ret = Default(op)
    /\ calls = <<>>
    /\ first = <<>>
    /\ other = <<>>

\* the caller invokes the same operation a second time, again with no buffers
again ==
    /\ pc = "ok"
    /\ first = <<>>
    /\ \A b \in BufsOf(op) : ~bufs[b].some
    /\ first' = <<ret>>
    /\ pc' = "start"
    /\ changes' = 0
    /\ sizes' = Default(op)
    /\ ret' = Default(op)
    /\ calls' = <<>>
    /\ UNCHANGED <<op, force_probe, bufs, bufs0, kernel>>
    /\ UNCHANGED <<other, lease_vars>>

LeaseIdle ==
    /\ leases = <<>>
    /\ leased_objs = <<>>
    /\ lessee_id = 0
    /\ lessee_fd = 0
    /\ lease_log = <<>>
    /\ ids = <<>>

Init == FetchInit /\ LeaseIdle

(***************************************************************************)
(* get_connector alone, run to completion: the calling thread keeps        *)
(* running (the calls are synchronous), the kernel changes when it likes.  *)
(***************************************************************************)
\* the lengths the buffers arrive with play no part in the loop (reserve and
\* the calls read capacities only), so the buffers start empty here
ConnectorInit ==
    /\ Init
    /\ op = "get_connector"
    /\ \A b \in BufsOf(op) : bufs[b] # None => bufs[b].len = 0

ConnectorNext ==
    \/ KernelChange
    \/ get_connector_probe
    \/ get_connector_fetch

ConnectorSpec ==
    /\ ConnectorInit
    /\ [][ConnectorNext]_vars
    /\ WF_vars(get_connector_probe)
    /\ WF_vars(get_connector_fetch)

(***************************************************************************)
(* Two threads, each in its own get_connector invocation on the same       *)
(* connector with its own buffers.  The kernel is shared; the locals of    *)
(* the thread that is not running are parked in `other`.                   *)
(***************************************************************************)
Locals(p, fp, b, b0, s, r, c) ==
    [pc |-> p, force_probe |-> fp, bufs |-> b, bufs0 |-> b0, sizes |-> s, ret |-> r,
     calls |-> c]

\* the scheduler runs the other thread, which has not returned yet
switch ==
    /\ other # <<>>
    /\ other.pc \in {"start", "probed"}
    /\ other' = Locals(pc, force_probe, bufs, bufs0, sizes, ret, calls)
    /\ pc' = other.pc
    /\ force_probe' = other.force_probe
    /\ bufs' = other.bufs
    /\ bufs0' = other.bufs0
    /\ sizes' = other.sizes
    /\ ret' = other.ret
    /\ calls' = other.calls
    /\ UNCHANGED <<op, kernel, changes, first>>
    /\ UNCHANGED lease_vars

\* each thread passes all four buffers, empty: new ones or ones with capacity
ThreadBuffers ==
    {[b \in BufsOf("get_connector") |-> Vec(0, c)] : c \in {0, MaxCap}}

ThreadInit ==
    /\ op = "get_connector"
    /\ pc = "start"
    /\ force_probe \in BOOLEAN
    /\ bufs \in ThreadBuffers
    /\ bufs0 = bufs
    /\ kernel \in Counts(op)
    /\ changes = 0
    /\ sizes = Default(op)
    /\ ret = Default(op)
    /\ calls = <<>>
    /\ first = <<>>
    /\ \E fp \in BOOLEAN, b \in ThreadBuffers :
          other = Locals("start", fp, b, b, Default(op), Default(op), <<>>)
    /\ LeaseIdle

ThreadNext ==
    \/ KernelChange
    \/ get_connector_probe
    \/ get_connector_fetch
    \/ switch

ThreadSpec == ThreadInit /\ [][ThreadNext]_vars

(***************************************************************************)
(* Leases                                                                  *)
(***************************************************************************)
Objects == {"crtc", "connector"}

\* objects held by the leases that are in force
Held == UNION {leased_objs[i] : i \in {j \in DOMAIN leases : leases[j] = "Leased"}}

\* the kernel's DRM_IOCTL_MODE_CREATE_LEASE: a new lessee identifier and a new
\* handle, granted only for objects no lease in force holds
KernelCreateLease(objs, ok) ==
    /\ ok => objs \cap Held = {}
    /\ leases' = IF ok THEN Append(leases, "Leased") ELSE leases
    /\ leased_objs' = IF ok THEN Append(leased_objs, objs) ELSE leased_objs

KernelLeaseRecord(ok) ==
    IF ok THEN [lessee_id |-> Len(leases) + 1, fd |-> Len(leases) + 3]
          ELSE [lessee_id |-> 0, fd |-> 0]

\* the kernel's DRM_IOCTL_MODE_REVOKE_LEASE: succeeds on a lease in force
KernelRevokeOk(id) == id \in DOMAIN leases /\ leases[id] = "Leased"

KernelRevokeLease(id) ==
    /\ leases' = IF KernelRevokeOk(id) THEN [leases EXCEPT ![id] = "Revoked"] ELSE leases
    /\ UNCHANGED leased_objs

\* create_lease.fd as RawFd: the u32 field reinterpreted as an i32
\* (values up to i32::MAX are kept, larger ones lose 2^32)
as_RawFd(v) == IF v <= 2147483647 THEN v ELSE ((v - 2147483647) - 2147483647) - 2

\* mutant: the output is never written
create_lease_out_kept(out, wanted, value) == out

\* if let Some(out) = out { *out = value }
create_lease_out(out, wanted, value) == IF wanted THEN value ELSE out

\* mutant: the kernel's error is dropped
revoke_lease_swallow(kernel_ok) == TRUE

\* ioctl(..)?; Ok(())
revoke_lease_result(kernel_ok) == kernel_ok

create_lease ==
    /\ pc = "idle"
    /\ Len(lease_log) < MaxLeaseCalls
    /\ \E objs \in SUBSET Objects, want_id \in BOOLEAN, want_fd \in BOOLEAN, ok \in BOOLEAN :
          /\ KernelCreateLease(objs, ok)
          /\ LET rec == KernelLeaseRecord(ok) IN
             /\ lessee_id' = IF ok THEN create_lease_out(lessee_id, want_id, rec.lessee_id)
                                   ELSE lessee_id
             /\ lessee_fd' = IF ok THEN create_lease_out(lessee_fd, want_fd, as_RawFd(rec.fd))
                                   ELSE lessee_fd
             /\ lease_log' = Append(lease_log,
                                 [call |-> "create_lease", arg |-> 0, ok |-> ok,
                                  id |-> rec.lessee_id, fd |-> rec.fd,
                                  want_id |-> want_id, want_fd |-> want_fd])
    /\ UNCHANGED ids
    /\ UNCHANGED fetch_vars

revoke_lease ==
    /\ pc = "idle"
    /\ Len(lease_log) < MaxLeaseCalls
    /\ \E id \in 0..(Len(leases) + 1) :
          /\ KernelRevokeLease(id)
          /\ lease_log' = Append(lease_log,
                              [call |-> "revoke_lease", arg |-> id,
                               ok |-> revoke_lease_result(KernelRevokeOk(id)),
                               id |-> 0, fd |-> 0,
                               want_id |-> FALSE, want_fd |-> FALSE])
    /\ UNCHANGED <<lessee_id, lessee_fd, ids>>
    /\ UNCHANGED fetch_vars

LeaseInit ==
    /\ op = "none"
    /\ pc = "idle"
    /\ force_probe = FALSE
    /\ bufs = <<>>
    /\ bufs0 = <<>>
    /\ kernel = <<>>
    /\ changes = 0
    /\ sizes = <<>>
    /\ ret = <<>>
    /\ calls = <<>>
    /\ first = <<>>
    /\ other = <<>>
    /\ LeaseIdle

LeaseNext == create_lease \/ revoke_lease

LeaseSpec == LeaseInit /\ [][LeaseNext]_vars

Next ==
    \/ KernelChange
    \/ get_resources_probe
    \/ get_resources_fetch
    \/ get_plane_resources_probe
    \/ get_plane_resources_fetch
    \/ get_connector_probe
    \/ get_connector_fetch
    \/ get_plane_probe
    \/ get_plane_fetch
    \/ get_property_probe
    \/ get_property_fetch
    \/ get_property_blob_probe
    \/ get_property_blob_fetch
    \/ get_properties_probe
    \/ get_properties_fetch
    \/ list_lessees_probe
    \/ list_lessees_fetch
    \/ get_lease_probe
    \/ get_lease_fetch
    \/ again

Spec == Init /\ [][Next]_vars

(***************************************************************************)
(* control/lease.rs: LesseeId and its conversions.  A u32 is kept as its   *)
(* two 16-bit halves, so that u32::MAX and its neighbours are values of    *)
(* the model.                                                              *)
(***************************************************************************)
Halves == {0, 1, 32768, 65535}
U32 == [hi : Halves, lo : Halves]

\* pub struct LesseeId(u32): a tuple struct of one field
LesseeId(v) == <<v>>

\* impl From<u32> for LesseeId
LesseeId_from(handle) == LesseeId(handle)

\* mutant: the conversion keeps the low half only
u32_from_low(handle) == [hi |-> 0, lo |-> handle[1].lo]

\* impl From<LesseeId> for u32: handle.0.into()
u32_from(handle) == handle[1]

\* #[derive(PartialEq, Eq)]: field by field
LesseeId_eq(x, y) == x[1] = y[1]

\* two u32 values are converted to LesseeIds
from_u32 ==
    /\ ids # <<>>
    /\ ids.id = <<>>
    /\ ids' = [ids EXCEPT !.id = <<LesseeId_from(ids.u[1]), LesseeId_from(ids.u[2])>>]
    /\ UNCHANGED <<fetch_vars, leases, leased_objs, lessee_id, lessee_fd, lease_log>>

\* the two LesseeIds are converted to u32
into_u32 ==
    /\ ids # <<>>
    /\ ids.id # <<>>
    /\ ids.u2 = <<>>
    /\ ids' = [ids EXCEPT !.u2 = <<u32_from(ids.id[1]), u32_from(ids.id[2])>>]
    /\ UNCHANGED <<fetch_vars, leases, leased_objs, lessee_id, lessee_fd, lease_log>>

\* and those u32 to LesseeIds again
from_u32_again ==
    /\ ids # <<>>
    /\ ids.u2 # <<>>
    /\ ids.id2 = <<>>
    /\ ids' = [ids EXCEPT !.id2 = <<LesseeId_from(ids.u2[1]), LesseeId_from(ids.u2[2])>>]
    /\ UNCHANGED <<fetch_vars, leases, leased_objs, lessee_id, lessee_fd, lease_log>>

IdInit ==
    /\ op = "none"
    /\ pc = "idle"
    /\ force_probe = FALSE
    /\ bufs = <<>>
    /\ bufs0 = <<>>
    /\ kernel = <<>>
    /\ changes = 0
    /\ sizes = <<>>
    /\ ret = <<>>
    /\ calls = <<>>
    /\ first = <<>>
    /\ other = <<>>
    /\ leases = <<>>
    /\ leased_objs = <<>>
    /\ lessee_id = 0
    /\ lessee_fd = 0
    /\ lease_log = <<>>
    /\ \E a \in U32, b \in U32 :
          ids = [u |-> <<a, b>>, id |-> <<>>, u2 |-> <<>>, id2 |-> <<>>]

IdNext == from_u32 \/ into_u32 \/ from_u32_again

IdSpec == IdInit /\ [][IdNext]_vars

(***************************************************************************)
(* The fixed-size operations: build the request, one ioctl, return the     *)
(* struct.  CallSpec runs one invocation of any operation of mode.rs.      *)
(***************************************************************************)
\* function -> the ioctl it issues
FixedIoctl ==
    [get_framebuffer |-> "get_fb", add_fb |-> "add_fb",
     get_framebuffer2 |-> "get_fb2", add_fb2 |-> "add_fb2",
     rm_fb |-> "rm_fb", dirty_fb |-> "dirty_fb",
     get_crtc |-> "get_crtc", set_crtc |-> "set_crtc",
     get_gamma |-> "get_gamma", set_gamma |-> "set_gamma",
     set_cursor |-> "cursor", set_cursor2 |-> "cursor2", move_cursor |-> "cursor",
     get_encoder |-> "get_encoder", set_plane |-> "set_plane",
     set_connector_property |-> "connector_set_property",
     create_property_blob |-> "create_blob", destroy_property_blob |-> "destroy_blob",
     set_property |-> "obj_set_property", page_flip |-> "crtc_page_flip",
     atomic_commit |-> "atomic",
     create_lease |-> "create_lease", revoke_lease |-> "revoke_lease",
     dumbbuffer_create |-> "create_dumb", dumbbuffer_destroy |-> "destroy_dumb",
     dumbbuffer_map |-> "map_dumb"]

FixedOps == DOMAIN FixedIoctl

\* the request struct: no array for the kernel to size and fill
fixed_req(o) == [ioctl |-> FixedIoctl[o], ptr |-> <<>>, count |-> <<>>]

\* mutant: the ioctl is issued twice
fixed_call_twice ==
    /\ op \in FixedOps
    /\ pc = "start"
    /\ \E ok \in BOOLEAN :
          LET c == [req |-> fixed_req(op), ok |-> ok, rep |-> kernel,
                    errno |-> IF ok THEN "" ELSE "EINVAL"] IN
          /\ calls' = calls \o <<c, c>>
          /\ pc' = IF ok THEN "ok" ELSE "err"
          /\ ret' = IF ok THEN kernel ELSE Err("EINVAL")
    /\ UNCHANGED <<op, force_probe, bufs, bufs0, kernel, changes, sizes, first>>
    /\ UNCHANGED <<other, lease_vars>>

fixed_call ==
    /\ op \in FixedOps
    /\ pc = "start"
    /\ \E ok \in BOOLEAN :
          /\ Ioctl(fixed_req(op), ok)
          /\ IF ok
                THEN pc' = "ok" /\ ret' = kernel
                ELSE Failed
    /\ UNCHANGED <<op, force_probe, bufs, bufs0, kernel, changes, sizes, first>>
    /\ UNCHANGED <<other, lease_vars>>

FixedInit ==
    /\ op \in FixedOps
    /\ pc = "start"
    /\ force_probe = FALSE
    /\ bufs = <<>>
    /\ bufs0 = <<>>
    /\ kernel = <<>>
    /\ changes = 0
    /\ sizes = <<>>
    /\ ret = <<>>
    /\ calls = <<>>
    /\ first = <<>>
    /\ other = <<>>
    /\ LeaseIdle

CallInit == Init \/ FixedInit

CallNext ==
    \/ op \in Ops /\ Next
    \/ fixed_call

CallSpec == CallInit /\ [][CallNext]_vars

(***************************************************************************)
(* Properties                                                              *)
(***************************************************************************)
Supplied == {b \in BufsOf(op) : bufs0[b].some}
NoBuffers == Supplied = {}
N == Len(calls)
ShortCircuit == {"get_plane_resources", "get_plane", "get_property_blob"}
MultiArray == {"get_connector", "get_resources", "get_property", "get_properties"}

\* C1: whenever an operation returns success with a buffer supplied, the length
\* it set on the buffer is at most the buffer's capacity.
C1_LenWithinCap ==
    (op \in Ops /\ pc = "ok") => \A b \in Supplied : bufs[b].len <= bufs[b].cap

\* C2: on success every supplied buffer's length is the count written by the
\* last kernel call of the invocation.
C2_LenIsLastCount ==
    (op \in Ops /\ pc = "ok") =>
        \A b \in Supplied :
            /\ N >= 2
            /\ calls[N].ok
            /\ bufs[b].len = calls[N].rep[FieldOf(op, b)]

C2_Witness ==
    /\ op \in Ops
    /\ pc = "ok"
    /\ \E b \in Supplied :
          LET f == FieldOf(op, b) IN
          /\ bufs[b].len = calls[N].rep[f]
          /\ calls[N].rep[f] # calls[1].rep[f]
          /\ bufs[b].len # bufs[b].cap
          /\ bufs[b].len # bufs0[b].len

\* C3: get_connector returns after exactly the first fetch whose three counts
\* equal those of the call before it, with buffer lengths equal to that
\* fetch's counts; with a stable kernel it issues one probe and one fetch.
C3_ConnectorConvergence ==
    op = "get_connector" =>
        /\ pc = "ok" =>
              /\ N >= 2
              /\ calls[N].rep = calls[N - 1].rep
              /\ \A k \in 2..(N - 1) : calls[k].rep # calls[k - 1].rep
              /\ \A b \in Supplied : bufs[b].len = calls[N].rep[FieldOf(op, b)]
        /\ (pc = "probed" /\ N >= 2) => calls[N].rep # calls[N - 1].rep
        /\ (pc = "ok" /\ changes = 0) => N = 2

C3_Witness ==
    /\ op = "get_connector"
    /\ pc = "ok"
    /\ N = 3
    /\ bufs0["modes"].some
    /\ calls[2].rep["count_modes"] # calls[1].rep["count_modes"]
    /\ bufs["modes"].len = calls[3].rep["count_modes"]

\* C4: get_property with an enums buffer, probe reporting 2 enum blobs and
\* the fetch reporting 3: the operation does not return after that fetch, it
\* fetches again and returns with length 3 and capacity at least 3.
C4_PropertyRefetches ==
    (/\ op = "get_property"
     /\ bufs0["enums"].some
     /\ N >= 2
     /\ calls[1].rep["count_enum_blobs"] = 2
     /\ calls[2].ok
     /\ calls[2].rep["count_enum_blobs"] = 3
     /\ pc = "ok") =>
        /\ N >= 3
        /\ calls[N].rep["count_enum_blobs"] = calls[N - 1].rep["count_enum_blobs"]
        /\ bufs["enums"].len = 3
        /\ bufs["enums"].cap >= 3

\* C5: an operation that fetches several arrays in one call returns success
\* only if every count of its final call equals the count of the call before.
C5_AllCountsConverged ==
    (op \in MultiArray /\ pc = "ok" /\ N >= 2) => calls[N].rep = calls[N - 1].rep

C7_PairedBuffers ==
    (\/ op = "get_properties" /\ bufs0["props"].some # bufs0["values"].some
     \/ op = "get_connector" /\ bufs0["props"].some # bufs0["prop_values"].some) =>
        /\ pc \in {"start", "panic"}
        /\ N = 0
        /\ bufs = bufs0

C7_Witness ==
    /\ op = "get_properties"
    /\ pc = "panic"
    /\ bufs0["props"].some
    /\ ~bufs0["values"].some

\* C8: the probe carries a null pointer and a zero count for every caller
\* array (get_connector without force_probe sends its scratch mode and
\* count 1), no buffer changes before the second kernel call, and a second
\* invocation with no buffers and no kernel-side change returns the counts
\* the first returned.
C8_ProbeTouchesNothing ==
    op \in Ops =>
        /\ N >= 1 =>
              /\ \A p \in DOMAIN calls[1].req.ptr :
                    \/ calls[1].req.ptr[p] = "null"
                    \/ /\ op = "get_connector" /\ ~force_probe
                       /\ p = "modes_ptr" /\ calls[1].req.ptr[p] = "tmp_mode"
              /\ \A f \in DOMAIN calls[1].req.count :
                    \/ calls[1].req.count[f] = 0
                    \/ /\ op = "get_connector" /\ ~force_probe
                       /\ f = "count_modes" /\ calls[1].req.count[f] = 1
        /\ N <= 1 => bufs = bufs0
        /\ (first # <<>> /\ pc = "ok" /\ changes = 0) =>
              /\ ret = first[1]
              /\ bufs = bufs0

C8_Witness ==
    /\ op = "get_resources"
    /\ first # <<>>
    /\ pc = "ok"
    /\ changes = 0
    /\ ret = first[1]
    /\ ret["count_crtcs"] > 0

\* C9: get_connector with force_probe=false sends count_modes >= 1 and a
\* non-null modes pointer in every kernel call; with force_probe=true the
\* probe sends count_modes = 0 and a null modes pointer.
C9_NoForcedProbe ==
    op = "get_connector" =>
        \A i \in 1..N :
            IF ~force_probe
               THEN /\ calls[i].req.count["count_modes"] >= 1
                    /\ calls[i].req.ptr["modes_ptr"] # "null"
               ELSE i = 1 => /\ calls[i].req.count["count_modes"] = 0
                             /\ calls[i].req.ptr["modes_ptr"] = "null"

\* C10: revoke_lease succeeds on an identifier a successful create_lease
\* returned and no revoke_lease has revoked, and returns an error on an
\* identifier never returned or already revoked.
ReturnedBefore(i) ==
    {lease_log[j].id : j \in {x \in 1..(i - 1) :
                                lease_log[x].call = "create_lease" /\ lease_log[x].ok}}

RevokedBefore(i) ==
    {lease_log[j].arg : j \in {x \in 1..(i - 1) :
                                 lease_log[x].call = "revoke_lease" /\ lease_log[x].ok}}

C10_LeaseLifecycle ==
    \A i \in 1..Len(lease_log) :
        lease_log[i].call = "revoke_lease" =>
            (lease_log[i].ok <=> lease_log[i].arg \in ReturnedBefore(i) \ RevokedBefore(i))

C10_Witness ==
    /\ Len(lease_log) = 3
    /\ lease_log[1].call = "create_lease" /\ lease_log[1].ok
    /\ lease_log[2].call = "revoke_lease" /\ lease_log[2].arg = lease_log[1].id
    /\ lease_log[2].ok
    /\ lease_log[3].call = "revoke_lease" /\ lease_log[3].arg = lease_log[1].id
    /\ ~lease_log[3].ok

\* C11: Revoked is terminal for an identifier: after a successful revoke_lease
\* of an identifier no later create_lease returns it, and the kernel's table
\* never shows it Leased again.
C11_RevokedTerminal ==
    \A i \in 1..Len(lease_log) :
        (lease_log[i].call = "revoke_lease" /\ lease_log[i].ok) =>
            /\ lease_log[i].arg \in DOMAIN leases
            /\ leases[lease_log[i].arg] = "Revoked"
            /\ \A j \in (i + 1)..Len(lease_log) :
                  (lease_log[j].call = "create_lease" /\ lease_log[j].ok) =>
                      lease_log[j].id # lease_log[i].arg

C11_Witness ==
    /\ Len(lease_log) = 3
    /\ lease_log[1].call = "create_lease" /\ lease_log[1].ok
    /\ lease_log[2].call = "revoke_lease" /\ lease_log[2].ok
    /\ lease_log[2].arg = lease_log[1].id
    /\ lease_log[3].call = "create_lease" /\ lease_log[3].ok
    /\ leases[lease_log[1].id] = "Revoked"
    /\ leases[lease_log[3].id] = "Leased"

\* C12: a kernel call that fails ends the invocation: the operation returns
\* that call's error code and no record, and no kernel call follows a failed
\* one; a call is repeated only after a successful call whose counts differ
\* from the sizing counts.
C12_ErrorsPassThrough ==
    op \in Ops =>
        /\ \A k \in 1..(N - 1) : calls[k].ok
        /\ (N >= 1 /\ ~calls[N].ok) => (pc = "err" /\ ret = [err |-> calls[N].errno])
        /\ pc = "err" => (N >= 1 /\ ~calls[N].ok)
        /\ N >= 3 => /\ op = "get_connector"
                     /\ \A k \in 2..(N - 1) : calls[k].rep # calls[k - 1].rep

C12_Witness ==
    /\ op = "get_connector"
    /\ pc = "err"
    /\ N = 3
    /\ calls[1].ok /\ calls[2].ok /\ ~calls[3].ok
    /\ calls[3].errno = "EACCES"
    /\ ret = [err |-> "EACCES"]

Written(c, f) == IF c.ok /\ c.req.count[f] >= c.rep[f] THEN c.rep[f] ELSE 0

\* an invocation that returned success: record, lengths and elements are those of
\* its last call, whose counts are the counts its buffers were sized with
SelfConsistent(t) ==
    t.pc = "ok" =>
        LET n == Len(t.calls) IN
        /\ n >= 2
        /\ t.calls[n].ok
        /\ t.calls[n - 1].ok
        /\ t.ret = t.calls[n].rep
        /\ t.sizes = t.calls[n - 1].rep
        /\ t.calls[n].rep = t.calls[n - 1].rep
        /\ \A b \in BufsOf("get_connector") :
              t.bufs[b].some =>
                  /\ t.bufs[b].len = t.calls[n].rep[FieldOf("get_connector", b)]
                  /\ t.bufs[b].len = Written(t.calls[n], FieldOf("get_connector", b))
                  /\ t.bufs[b].len <= t.bufs[b].cap

\* C14: two threads in get_connector on one connector, the kernel's arrays
\* changing between calls: under every interleaving each invocation that returns
\* success has its record, its buffer lengths and the elements written all from
\* its own last kernel call, whose counts equal the counts that sized its buffers.
C14_SelfConsistent ==
    (op = "get_connector" /\ other # <<>>) =>
        /\ SelfConsistent(Locals(pc, force_probe, bufs, bufs0, sizes, ret, calls))
        /\ SelfConsistent(other)

\* both threads returned, one of them after a retry, with different records
C14_Witness ==
    /\ op = "get_connector"
    /\ other # <<>>
    /\ pc = "ok"
    /\ other.pc = "ok"
    /\ ret # other.ret
    /\ Len(calls) = 3
    /\ Len(other.calls) = 2
    /\ calls[1].rep = other.ret

\* C15: get_plane_resources, get_plane and get_property_blob.  With no
\* destination buffer the invocation is over after the probe: one kernel call,
\* the record returned is the one that call wrote, nothing is allocated.  With
\* a buffer the probe is followed by exactly one fetch call that carries the
\* buffer's pointer.
C15_ShortCircuit ==
    op \in ShortCircuit =>
        /\ N <= (IF NoBuffers THEN 1 ELSE 2)
        /\ (N >= 1 /\ calls[1].ok) => pc # "start"
        /\ (N >= 1 /\ calls[1].ok /\ NoBuffers) =>
              /\ pc = "ok"
              /\ ret = calls[1].rep
              /\ bufs = bufs0
        /\ (pc = "ok" /\ ~NoBuffers) =>
              /\ N = 2
              /\ \A p \in DOMAIN calls[1].req.ptr : calls[1].req.ptr[p] = "null"
              /\ \A p \in DOMAIN calls[2].req.ptr : calls[2].req.ptr[p] # "null"
              /\ ret = calls[2].rep

C15_Witness ==
    /\ op = "get_property_blob"
    /\ NoBuffers
    /\ pc = "ok"
    /\ N = 1
    /\ ret["length"] > 0
    /\ ret = calls[1].rep

\* the pointer field of the request that carries buffer b
PtrOf(o, b) ==
    CASE o = "get_resources" ->
            (CASE b = "fbs" -> "fb_id_ptr" [] b = "crtcs" -> "crtc_id_ptr"
               [] b = "connectors" -> "connector_id_ptr"
               [] b = "encoders" -> "encoder_id_ptr")
      [] o = "get_connector" ->
            (CASE b = "modes" -> "modes_ptr" [] b = "encoders" -> "encoders_ptr"
               [] b = "props" -> "props_ptr" [] b = "prop_values" -> "prop_values_ptr")
      [] o = "get_property" ->
            (CASE b = "values" -> "values_ptr" [] b = "enums" -> "enum_blob_ptr")
      [] o = "get_properties" ->
            (CASE b = "props" -> "props_ptr" [] b = "values" -> "prop_values_ptr")
      [] o = "get_plane_resources" -> "plane_id_ptr"
      [] o = "get_plane" -> "format_type_ptr"
      [] o = "get_property_blob" -> "data"
      [] o = "list_lessees" -> "lessees_ptr"
      [] o = "get_lease" -> "objects_ptr"

\* get_connector without force_probe and without a modes buffer
TmpMode(b) == op = "get_connector" /\ b = "modes" /\ ~force_probe

\* the buffer whose capacity is sent as the count of buffer b's array
CountBuf(b) ==
    IF op = "get_connector" /\ b = "prop_values" THEN "props"
    ELSE IF op = "get_properties" /\ b = "values" THEN "props"
    ELSE b

\* C16 as stated: in every fetch call, a supplied buffer's pointer field is the
\* buffer and its count field is the buffer's capacity at the call; an absent
\* buffer's pointer is null and its count zero; the count the kernel reports is
\* returned in the record.
C16_CountIsCapacity ==
    (op \in Ops /\ N >= 2) =>
        /\ \A b \in BufsOf(op) :
              LET req == calls[N].req IN
              IF bufs[b].some
                 THEN /\ req.ptr[PtrOf(op, b)] = b
                      /\ req.count[FieldOf(op, b)] = bufs[b].cap
                 ELSE /\ req.ptr[PtrOf(op, b)] = "null"
                      /\ req.count[FieldOf(op, b)] = 0
        /\ pc = "ok" => \A f \in FieldsOf(op) : ret[f] = calls[N].rep[f]

\* C16 amended: a supplied buffer's pointer field is the buffer; the count sent
\* is the probed count (at most the capacity) in get_plane_resources, get_plane
\* and get_property_blob, the capacity of the property-id buffer for both
\* property buffers of get_connector and get_properties, and the buffer's own
\* capacity everywhere else.  An absent buffer's pointer is null and its count
\* zero, except get_connector's modes without force_probe (the one-element
\* temporary, count 1).  The count the kernel reports is returned in the record.
C16_FetchRequest ==
    (op \in Ops /\ N >= 2) =>
        /\ \A b \in BufsOf(op) :
              LET req == calls[N].req IN
              IF bufs[b].some
                 THEN /\ req.ptr[PtrOf(op, b)] = b
                      /\ IF op \in ShortCircuit
                            THEN /\ req.count[FieldOf(op, b)] = calls[N - 1].rep[FieldOf(op, b)]
                                 /\ req.count[FieldOf(op, b)] <= bufs[b].cap
                            ELSE req.count[FieldOf(op, b)] = bufs[CountBuf(b)].cap
                 ELSE IF TmpMode(b)
                         THEN /\ req.ptr[PtrOf(op, b)] = "tmp_mode"
                              /\ req.count[FieldOf(op, b)] = 1
                         ELSE /\ req.ptr[PtrOf(op, b)] = "null"
                              /\ req.count[FieldOf(op, b)] = 0
        /\ pc = "ok" => \A f \in FieldsOf(op) : ret[f] = calls[N].rep[f]

\* get_plane_resources fetching into a buffer larger than the probed count
C16_Witness ==
    /\ op = "get_plane_resources"
    /\ pc = "ok"
    /\ N = 2
    /\ calls[2].req.ptr["plane_id_ptr"] = "planes"
    /\ calls[2].req.count["count_planes"] = 1
    /\ bufs["planes"].cap = 2

\* C17: at every fetch call, every retry of get_connector included, each
\* supplied buffer's capacity is at least the count the preceding kernel call of
\* the invocation reported for its array, whatever length and capacity the
\* buffer came in with.
C17_ReservedForPrevious ==
    (op \in Ops /\ N >= 2) =>
        /\ calls[N - 1].ok
        /\ \A b \in Supplied :
              /\ bufs[b].cap >= calls[N - 1].rep[FieldOf(op, b)]
              /\ bufs[b].cap >= bufs0[b].cap

\* a retry of get_connector after the encoder array grew: the buffer grew with it
C17_Witness ==
    /\ op = "get_connector"
    /\ N = 3
    /\ "encoders" \in Supplied
    /\ calls[2].rep["count_encoders"] > calls[1].rep["count_encoders"]
    /\ bufs["encoders"].cap = calls[2].rep["count_encoders"]
    /\ bufs["encoders"].cap > bufs0["encoders"].cap

\* get_connector went round its loop again
Retried ==
    /\ op = "get_connector"
    /\ \E k \in 2..N : calls[k].ok /\ calls[k].rep # calls[k - 1].rep

\* C18: a fixed-size operation issues exactly one kernel call per invocation;
\* an array-fetching invocation that has a buffer, does not retry and returns
\* success issues exactly two, the probe (no buffer pointer in it) first and the
\* fetch (the buffers' pointers in it) second.
C18_CallCounts ==
    /\ op \in FixedOps =>
          /\ N = (IF pc = "start" THEN 0 ELSE 1)
          /\ pc \in {"start", "ok", "err"}
          /\ N = 1 => calls[1].req.ioctl = FixedIoctl[op]
    /\ (op \in Ops /\ pc = "ok" /\ ~NoBuffers /\ ~Retried) =>
          /\ N = 2
          /\ \A b \in BufsOf(op) : calls[1].req.ptr[PtrOf(op, b)] # b
          /\ \A b \in Supplied : calls[2].req.ptr[PtrOf(op, b)] = b

C18_Witness ==
    /\ op = "set_crtc"
    /\ pc = "ok"
    /\ N = 1
    /\ calls[1].ok
    /\ calls[1].req.ioctl = "set_crtc"

\* the value buffer paired with props
ValuesBuf == IF op = "get_connector" THEN "prop_values" ELSE "values"

\* C19: in get_connector and get_properties the count_props sent in a fetch call
\* exceeds the capacity of neither the property-id buffer nor the property-value
\* buffer, whatever capacities the two buffers came in with.
C19_PropCountWithinBoth ==
    (op \in {"get_connector", "get_properties"} /\ N >= 2 /\ bufs["props"].some) =>
        /\ calls[N].req.count["count_props"] <= bufs["props"].cap
        /\ calls[N].req.count["count_props"] <= bufs[ValuesBuf].cap

\* C20: get_connector accepts a fetch only when all three counts equal the
\* sizing counts.  A fetch reporting any different count, smaller ones included,
\* is not accepted: it becomes the sizing record, another fetch follows, and no
\* buffer length has been set from it.
C20_ExactEquality ==
    op = "get_connector" =>
        /\ \A k \in 2..N :
              (calls[k].ok /\ \E f \in FieldsOf(op) : calls[k].rep[f] # calls[k - 1].rep[f]) =>
                  \/ k < N
                  \/ /\ pc = "probed"
                     /\ sizes = calls[k].rep
        /\ pc # "ok" => \A b \in Supplied : bufs[b].len = bufs0[b].len
        /\ pc = "ok" =>
              /\ \A f \in FieldsOf(op) : calls[N].rep[f] = calls[N - 1].rep[f]
              /\ \A b \in Supplied : bufs[b].len = sizes[FieldOf(op, b)]

\* the encoder array shrank between the probe and the first fetch: refetched
C20_Witness ==
    /\ op = "get_connector"
    /\ pc = "ok"
    /\ N = 3
    /\ "encoders" \in Supplied
    /\ calls[2].rep["count_encoders"] < calls[1].rep["count_encoders"]
    /\ calls[3].rep = calls[2].rep
    /\ bufs["encoders"].len = calls[3].rep["count_encoders"]
    /\ bufs["encoders"].cap > bufs["encoders"].len

\* C21: create_lease writes a lessee_id / lessee_fd output exactly when the
\* caller passed it and the kernel call succeeded, and then with the lessee_id /
\* fd field of the record it returns; when the kernel call fails both outputs
\* keep the values they had before the call.
C21_LeaseOutputs ==
    [][(/\ Len(lease_log') = Len(lease_log) + 1
        /\ lease_log'[Len(lease_log')].call = "create_lease") =>
          LET e == lease_log'[Len(lease_log')] IN
          /\ lessee_id' = (IF e.ok /\ e.want_id THEN e.id ELSE lessee_id)
          /\ lessee_fd' = (IF e.ok /\ e.want_fd THEN e.fd ELSE lessee_fd)]_vars

\* a create_lease that wrote both outputs, then one that failed and left them
C21_Witness ==
    /\ Len(lease_log) = 2
    /\ lease_log[1].call = "create_lease" /\ lease_log[1].ok
    /\ lease_log[1].want_id /\ lease_log[1].want_fd
    /\ lease_log[2].call = "create_lease" /\ ~lease_log[2].ok
    /\ lease_log[2].want_id /\ lease_log[2].want_fd
    /\ lessee_id = lease_log[1].id
    /\ lessee_fd = lease_log[1].fd
    /\ lessee_id # 0

\* C22: LesseeId wraps a u32 and nothing else: a u32 converted to LesseeId and
\* back is the same u32, a LesseeId converted to u32 and back is an equal
\* LesseeId, and two LesseeIds are equal exactly when their u32 values are.
C22_LesseeIdTransparent ==
    ids # <<>> =>
        /\ ids.id # <<>> =>
              (LesseeId_eq(ids.id[1], ids.id[2]) <=> ids.u[1] = ids.u[2])
        /\ ids.u2 # <<>> =>
              /\ ids.u2 = ids.u
              /\ LesseeId_eq(ids.id[1], ids.id[2]) <=> ids.u2[1] = ids.u2[2]
        /\ ids.id2 # <<>> =>
              /\ LesseeId_eq(ids.id2[1], ids.id[1])
              /\ LesseeId_eq(ids.id2[2], ids.id[2])

\* u32::MAX and 65536 through all three conversions
C22_Witness ==
    /\ ids # <<>>
    /\ ids.id2 # <<>>
    /\ ids.u[1] = [hi |-> 65535, lo |-> 65535]
    /\ ids.u[2] = [hi |-> 1, lo |-> 0]
    /\ ids.u2 = ids.u
    /\ ~LesseeId_eq(ids.id2[1], ids.id2[2])

====
